---- MODULE Spec2Model ----
(***************************************************************************)
(* Causal policy-impact batch of ClimateX:                                 *)
(*   scripts/4_run_historical_analysis.py  (the batch driver)              *)
(*   services/causal_engine/runner.py      (run_causal_analysis)           *)
(* A data frame is a record [columns, data]; a cell is <<v>> (a number) or *)
(* <<>> (NaN).  Floats are exact rationals [kind, num, den, df].           *)
(***************************************************************************)
EXTENDS Integers, Naturals, Sequences, FiniteSets, TLC

----------------------------------------------------------------------------
(* Bounds of the model *)

\* longest policy list (rows of df_policies) a run is given
MaxPolicies == 2
\* number of distinct entropy seeds numpy's global generator may start from
MaxSeed == 2
\* number of times the script is run on the same inputs
MaxRuns == 2

----------------------------------------------------------------------------
(* State *)

VARIABLES
    heap,            \* the data frame objects, by reference
    df_temp,         \* reference held by df_temp (the df of run_causal_analysis)
    df_subset,       \* reference held by df_subset
    df_policies,     \* the loaded policy list
    OUTCOMES,        \* outcome_cols
    COMMON_CAUSES,   \* common_causes_list
    raising,         \* the failing library call, if any
    np_random,       \* numpy's global generator
    pc,              \* position of the script
    policy_i,        \* index of policy_row in df_policies
    outcome_i,       \* index of outcome in outcome_cols
    ate_value, p_value_ate, p_value_placebo,
    results,         \* results of run_causal_analysis
    all_results,     \* all_results of the script
    output_file,     \* rows of the CSV at OUTPUT_PATH, <<>> while not written
    run,             \* number of the current run of the script
    prev_results,    \* all_results of the previous run
    loaded           \* the table a consumer of the CSV holds after loading it

vars == <<heap, df_temp, df_subset, df_policies, OUTCOMES, COMMON_CAUSES, raising,
          np_random, pc, policy_i, outcome_i, ate_value, p_value_ate,
          p_value_placebo, results, all_results, output_file, run, prev_results,
          loaded>>

inputs == <<df_policies, OUTCOMES, COMMON_CAUSES, raising>>

locals == <<ate_value, p_value_ate, p_value_placebo>>

----------------------------------------------------------------------------
(* Scalars *)

NaN == <<>>

Cell(v) == <<v>>

IsNaN(c) == c = NaN

Abs(x) == IF x < 0 THEN -x ELSE x

RECURSIVE Gcd(_, _)
Gcd(a, b) == IF b = 0 THEN a ELSE Gcd(b, a % b)

\* Python None
None == [kind |-> "None", num |-> 0, den |-> 1, df |-> 0]

\* float('nan')
NaNFloat == [kind |-> "nan", num |-> 0, den |-> 1, df |-> 0]

\* the float n/d, normalised (d # 0)
Float(n, d) ==
    LET g == Gcd(Abs(n), Abs(d))
        s == IF d < 0 THEN -1 ELSE 1
    IN [kind |-> "float", num |-> (s * n) \div g, den |-> (s * d) \div g, df |-> 0]

\* a <= b for floats of kind "float"
FloatLeq(a, b) == a.num * b.den <= b.num * a.den

----------------------------------------------------------------------------
(* Vectors and matrices over the integers *)

RECURSIVE SumTo(_, _)
SumTo(f, n) == IF n = 0 THEN 0 ELSE f[n] + SumTo(f, n - 1)

\* sum of a sequence of integers
SumSeq(s) == SumTo(s, Len(s))

Dot(u, v) == SumSeq([i \in 1..Len(u) |-> u[i] * v[i]])

Minor(M, i, j) ==
    [r \in 1..(Len(M) - 1) |->
        [c \in 1..(Len(M) - 1) |->
            M[IF r < i THEN r ELSE r + 1][IF c < j THEN c ELSE c + 1]]]

RECURSIVE Det(_)
Det(M) ==
    IF Len(M) = 0 THEN 1
    ELSE IF Len(M) = 1 THEN M[1][1]
    ELSE SumSeq([j \in 1..Len(M) |->
                   (IF j % 2 = 1 THEN 1 ELSE -1) * M[1][j] * Det(Minor(M, 1, j))])

ReplaceCol(M, j, b) ==
    [r \in 1..Len(M) |-> [c \in 1..Len(M) |-> IF c = j THEN b[r] ELSE M[r][c]]]

----------------------------------------------------------------------------
(* pandas data frames *)

Range(s) == {s[i] : i \in 1..Len(s)}

\* col in df.columns
HasCol(df, col) == col \in Range(df.columns)

\* the whole frame is handed on, the subsetting being left out
SelectAll(df, cols) == df

\* df[cols]: the listed columns, in the listed order
Select(df, cols) == [columns |-> cols, data |-> [c \in Range(cols) |-> df.data[c]]]

\* df[col] = vals
SetCol(df, col, vals) ==
    [columns |-> IF HasCol(df, col) THEN df.columns ELSE Append(df.columns, col),
     data    |-> [c \in Range(df.columns) \cup {col} |->
                    IF c = col THEN vals ELSE df.data[c]]]

\* Series.nunique(dropna=False): NaN counts as one value
NUnique(series) == Cardinality(Range(series))

NRows(df) == IF df.columns = <<>> THEN 0 ELSE Len(df.data[df.columns[1]])

HasNaN(series) == \E i \in 1..Len(series) : IsNaN(series[i])

Unwrap(series) == [i \in 1..Len(series) |-> series[i][1]]

----------------------------------------------------------------------------
(* dowhy "backdoor.linear_regression": ordinary least squares of the       *)
(* outcome on a constant, the treatment and the common causes              *)
(* (statsmodels OLS, solved here exactly by Cramer's rule)                 *)

\* value of a rank-deficient fit (statsmodels' pseudo-inverse solution) that
\* the model does not evaluate; it is a finite float
Pinv == [kind |-> "pinv", num |-> 0, den |-> 1, df |-> 0]

Ones(n) == [i \in 1..n |-> 1]

\* exog columns: constant, treatment, then the common causes
Design(df, treatment, common_causes) ==
    <<Ones(NRows(df)), Unwrap(df.data[treatment])>>
        \o [i \in 1..Len(common_causes) |-> Unwrap(df.data[common_causes[i]])]

Gram(X) == [i \in 1..Len(X) |-> [j \in 1..Len(X) |-> Dot(X[i], X[j])]]

Xty(X, y) == [i \in 1..Len(X) |-> Dot(X[i], y)]

IsZero(v) == \A i \in 1..Len(v) : v[i] = 0

\* coefficient of X[2] (the treatment) in the least-squares fit of y on X
TreatmentCoef(X, y) ==
    LET G == Gram(X)
        d == Det(G)
    IN IF IsZero(X[2]) THEN Float(0, 1)
       ELSE IF d = 0 THEN Pinv
       ELSE Float(Det(ReplaceCol(G, 2, Xty(X, y))), d)

\* two-sided p-value of the treatment coefficient: the t-tail of
\* t^2 = num/den with df residual degrees of freedom, kept symbolic
TTestP(n, d, dof) ==
    LET g == Gcd(Abs(n), Abs(d))
    IN [kind |-> "ttest_p", num |-> Abs(n) \div g, den |-> Abs(d) \div g, df |-> dof]

TreatmentPValue(X, y) ==
    LET G   == Gram(X)
        d   == Det(G)
        b   == Xty(X, y)
        N   == [j \in 1..Len(X) |-> Det(ReplaceCol(G, j, b))]
        dof == Len(y) - Len(X)
        ssr == d * Dot(y, y) - Dot(N, b)
        ctt == Det(Minor(G, 2, 2))
        g1  == Gcd(Abs(N[2]), Abs(ctt))
        g2  == Gcd(Abs(N[2]), Abs(ssr))
    IN IF IsZero(X[2]) THEN NaNFloat
       ELSE IF d = 0 THEN Pinv
       ELSE IF dof <= 0 THEN NaNFloat
       ELSE IF ssr = 0 THEN (IF N[2] = 0 THEN NaNFloat ELSE Float(0, 1))
       ELSE TTestP((N[2] \div g1) * (N[2] \div g2) * dof, (ctt \div g1) * (ssr \div g2), dof)

----------------------------------------------------------------------------
(* numpy's global random generator: a seed and a position in that seed's   *)
(* stream.  The generator is never seeded by the batch, so a process       *)
(* starts from an entropy seed.                                            *)

\* the raw draw at a position of a seed's stream
Draw(rng) == (rng.pos + 1) * (rng.pos + 3 + 5 * rng.seed) * 7 + 11 * rng.seed + rng.pos

Advance(rng, k) == [rng EXCEPT !.pos = rng.pos + k]

RECURSIVE Fact(_)
Fact(n) == IF n <= 1 THEN 1 ELSE n * Fact(n - 1)

RemoveAt(s, k) == [i \in 1..(Len(s) - 1) |-> IF i < k THEN s[i] ELSE s[i + 1]]

\* the idx-th ordering of items (factorial number system)
RECURSIVE PermOf(_, _)
PermOf(idx, items) ==
    IF items = <<>> THEN <<>>
    ELSE LET k == (idx % Len(items)) + 1
         IN <<items[k]>> \o PermOf(idx \div Len(items), RemoveAt(items, k))

\* an index drawn with replacement: a resample of the rows
ResampledIdx(rng, n) == [i \in 1..n |-> ((Draw(rng) + i * i) % n) + 1]

\* np.random.choice(n, size=n, replace=False): a permutation of the rows
PermutedIdx(rng, n) == PermOf(Draw(rng) % Fact(n), [i \in 1..n |-> i])

\* data[treatment].iloc[permuted_idx]
Permute(col, idx) == [i \in 1..Len(col) |-> col[idx[i]]]

----------------------------------------------------------------------------
(* dowhy calls made by run_causal_analysis *)

\* num_simulations of the placebo refuter
NumSimulations == 50

\* statsmodels refuses exog holding NaN ("exog contains inf or nans")
ExogHasNaN(df, treatment, common_causes) ==
    \/ HasNaN(df.data[treatment])
    \/ \E i \in 1..Len(common_causes) : HasNaN(df.data[common_causes[i]])

\* the difference of group means: a fit that leaves the common causes out
EstimateValueUnadjusted(df, treatment, outcome, common_causes) ==
    IF HasNaN(df.data[outcome]) THEN NaNFloat
    ELSE TreatmentCoef(Design(df, treatment, <<>>), Unwrap(df.data[outcome]))

\* estimate.value of model.estimate_effect(..., "backdoor.linear_regression")
EstimateValue(df, treatment, outcome, common_causes) ==
    IF HasNaN(df.data[outcome]) THEN NaNFloat
    ELSE TreatmentCoef(Design(df, treatment, common_causes), Unwrap(df.data[outcome]))

Array(items) == [kind |-> "array", items |-> items]

\* a significance test by resampling, which reads the global generator
TestStatSignificanceBootstrap(df, treatment, outcome, common_causes) ==
    [present |-> TRUE, keys |-> {"p_value"},
     p_value |-> Array(<<Float(Draw(np_random) % 100, 100)>>)]

\* estimate.test_stat_significance(): {'p_value': array([p])}
TestStatSignificance(df, treatment, outcome, common_causes) ==
    [present |-> TRUE, keys |-> {"p_value"},
     p_value |-> Array(<<IF HasNaN(df.data[outcome]) THEN NaNFloat
                         ELSE TreatmentPValue(Design(df, treatment, common_causes),
                                              Unwrap(df.data[outcome]))>>)]

\* the data of one placebo trial: the treatment column permuted by the draw
\* at rng, every other column as it is
PlaceboFrame(df, treatment, rng) ==
    SetCol(df, treatment, Permute(df.data[treatment], PermutedIdx(rng, NRows(df))))

\* effect estimated on the data of one placebo trial
PlaceboEffect(df, treatment, outcome, common_causes, rng) ==
    EstimateValue(PlaceboFrame(df, treatment, rng), treatment, outcome, common_causes)

\* a >= b for effects; unevaluated or NaN effects compare only when equal
AtLeast(a, b) ==
    \/ a = b
    \/ a.kind = "float" /\ b.kind = "float" /\ FloatLeq(b, a)

\* refute_placebo.refutation_result of the placebo_treatment_refuter with
\* placebo_type="permute": the simulations are compared with the estimate.
\* The p-value is NaN when all simulated effects coincide (zero spread);
\* otherwise it stands for the smaller tail of the estimate among them.
RefutationResult(df, treatment, outcome, common_causes, estimate_value, rng) ==
    LET sims == [i \in 1..NumSimulations |->
                    PlaceboEffect(df, treatment, outcome, common_causes, Advance(rng, i - 1))]
        ge   == Cardinality({i \in 1..NumSimulations : AtLeast(sims[i], estimate_value)})
        le   == Cardinality({i \in 1..NumSimulations : AtLeast(estimate_value, sims[i])})
        same == \A i \in 1..NumSimulations : sims[i] = sims[1]
    IN [present |-> TRUE, keys |-> {"p_value", "is_statistically_significant"},
        p_value |-> IF same \/ estimate_value.kind = "nan" THEN NaNFloat
                    ELSE Float(IF ge <= le THEN ge ELSE le, NumSimulations)]

\* the extraction without the pd.notna test
ExtractPValueUnfiltered(res) ==
    IF ~res.present \/ "p_value" \notin res.keys THEN None
    ELSE LET cand == res.p_value
         IN IF cand.kind = "array" /\ Len(cand.items) > 0 THEN cand.items[1] ELSE cand

\* lines 76-83 and 95-102: the p-value of a result object, or None
ExtractPValue(res) ==
    IF ~res.present \/ "p_value" \notin res.keys THEN None
    ELSE LET cand  == res.p_value
             first == IF cand.kind = "array" /\ Len(cand.items) > 0
                      THEN cand.items[1] ELSE cand
         IN IF first.kind \in {"nan", "None", "array"} THEN None ELSE first

----------------------------------------------------------------------------
(* Inputs of a batch run *)

Col(vals) == [i \in 1..Len(vals) |-> Cell(vals[i])]

NaNCol(n) == [i \in 1..n |-> NaN]

PanelColumns ==
    <<"Year", "EDGAR_CO2", "EDGAR_CH4", "PCB_total", "confounder_gdp",
      "confounder_industry_pct", "policy_NAPCC_2008">>

\* df_model after the aggregation, the renaming and ffill().bfill(): five
\* annual rows; EDGAR_CH4 is constant and confounder_industry_pct was never
\* reported (a column that is NaN throughout survives the fill)
Panel ==
    [columns |-> PanelColumns,
     data |-> [c \in Range(PanelColumns) |->
        CASE c = "Year"                    -> Col(<<1, 2, 3, 4, 5>>)
          [] c = "EDGAR_CO2"               -> Col(<<1, 2, 2, 3, 5>>)
          [] c = "EDGAR_CH4"               -> Col(<<4, 4, 4, 4, 4>>)
          [] c = "PCB_total"               -> Col(<<5, 3, 4, 1, 2>>)
          [] c = "confounder_gdp"          -> Col(<<1, 3, 2, 5, 4>>)
          [] c = "confounder_industry_pct" -> NaNCol(5)
          [] c = "policy_NAPCC_2008"       -> Col(<<0, 0, 0, 1, 1>>)]]

Panels == {Panel}

OutcomePrefixes == {"EDGAR_", "HCB_", "PAH_", "PCB_", "PCDD_"}

\* str.startswith
StartsWith(name, prefix) == name \in
    CASE prefix = "EDGAR_" -> {"EDGAR_CO2", "EDGAR_CH4"}
      [] prefix = "HCB_"   -> {"HCB_absent"}
      [] prefix = "PCB_"   -> {"PCB_total"}
      [] prefix = "PAH_"   -> {"PAH_recovery"}
      [] OTHER             -> {}

\* every column of the panel taken as an outcome
OutcomesOfAllColumns(df) == df.columns

\* OUTCOMES of the script: the panel columns with an outcome prefix
OutcomesOf(df) ==
    SelectSeq(df.columns, LAMBDA c : \E pre \in OutcomePrefixes : StartsWith(c, pre))

\* outcome_cols a caller of run_causal_analysis may pass
OutcomeLists(df) == {OutcomesOf(df), <<"HCB_absent", "EDGAR_CO2">>}

\* common_causes_list a caller of run_causal_analysis may pass
CommonCauseLists ==
    {<<"confounder_gdp", "Year">>,
     <<"confounder_gdp">>,
     <<"confounder_gdp", "confounder_industry_pct", "Year">>,
     <<"confounder_gdp", "confounder_absent">>}

RecoveryColumns ==
    <<"Year", "PAH_recovery", "confounder_population", "confounder_industry_pct">>

\* a panel without noise: PAH_recovery = 2 x (Year >= 3) + 0.5 x
\* confounder_population in every row
RecoveryPanel ==
    [columns |-> RecoveryColumns,
     data |-> [c \in Range(RecoveryColumns) |->
        CASE c = "Year"                    -> Col(<<1, 2, 3, 4, 5>>)
          [] c = "PAH_recovery"            -> Col(<<1, 3, 4, 7, 6>>)
          [] c = "confounder_population"   -> Col(<<2, 6, 4, 10, 8>>)
          [] c = "confounder_industry_pct" -> NaNCol(5)]]

\* the panel built from emission files that hold no rows
EmptyPanel ==
    [columns |-> RecoveryColumns, data |-> [c \in Range(RecoveryColumns) |-> <<>>]]

RecoveryPanels == {RecoveryPanel, EmptyPanel}

\* COMMON_CAUSES declared for the recovery panel, the empty list included
RecoveryCauseLists ==
    {<<>>,
     <<"confounder_population">>,
     <<"confounder_population", "confounder_industry_pct">>}

\* an empty cell of the policy file, as read_csv reports it (NaN)
Missing == "<missing>"

\* rows of the featurized policy file; Policy and Year are filled in every row
PolicyRows ==
    {[Policy |-> "NAPCC", Year |-> 4, policy_type |-> "Regulation", action_type |-> "Mandate"],
     [Policy |-> "EPAct", Year |-> 3, policy_type |-> "Subsidy", action_type |-> "Incentive"],
     [Policy |-> "Draft", Year |-> 2, policy_type |-> "ParseError", action_type |-> "Mandate"],
     [Policy |-> "Memo", Year |-> 4, policy_type |-> "Regulation", action_type |-> Missing]}

RECURSIVE SeqsUpTo(_, _)
\* the sequences of distinct members of S of length at most n
SeqsUpTo(S, n) ==
    IF n = 0 THEN {<<>>}
    ELSE LET shorter == SeqsUpTo(S, n - 1)
         IN shorter \cup {Append(q, x) : q \in shorter, x \in S}

Distinct(q) == \A i, j \in 1..Len(q) : i # j => q[i] # q[j]

PolicyFiles == {q \in SeqsUpTo(PolicyRows, MaxPolicies) : Distinct(q)}

\* rows of a policy file with a policy enacted after the last panel year
RecoveryPolicyRows ==
    {[Policy |-> "EPAct", Year |-> 3, policy_type |-> "Subsidy", action_type |-> "Incentive"],
     [Policy |-> "Future", Year |-> 6, policy_type |-> "Regulation", action_type |-> "Mandate"],
     [Policy |-> "Draft", Year |-> 2, policy_type |-> "ParseError", action_type |-> "Mandate"]}

RecoveryPolicyFiles == {q \in SeqsUpTo(RecoveryPolicyRows, MaxPolicies) : Distinct(q)}

\* script lines 63-64: the row survives dropna(subset=[..., 'policy_type',
\* 'action_type']) and its policy_type is not a classifier failure
Classified(r) ==
    /\ r.policy_type # Missing
    /\ r.action_type # Missing
    /\ r.policy_type \notin {"ParseError", "Error"}

\* a filter that also drops a class of policies
LoadPoliciesNoSubsidy(rows) ==
    SelectSeq(rows, LAMBDA r : Classified(r) /\ r.policy_type # "Subsidy")

\* lines 61-64: keep the policies the classifier handled
LoadPolicies(rows) == SelectSeq(rows, Classified)

\* the library calls of a pair, in the order of the try block
LibrarySteps == {"define_model", "estimate", "significance", "refute"}

NoFault == [year |-> 0, outcome |-> "", step |-> ""]

\* one permutation trial inside refute_estimate fails numerically (e.g. a
\* LinAlgError of its fit); the refuter has no handler around a trial
TrialFault == [year |-> 3, outcome |-> "PAH_recovery", step |-> "refute_trial"]

\* a library call of one estimation context that fails for a reason the
\* data do not show (e.g. a LinAlgError); it fails the same way every time
Faults ==
    {NoFault} \cup
    {[year |-> 3, outcome |-> "EDGAR_CO2", step |-> st] : st \in LibrarySteps}

----------------------------------------------------------------------------
(* Frame objects and script positions *)

\* references of the frame objects
DfModel == "df_model"
TempObj == "temp_object"
SubsetObj == "subset_object"

NoFrame == [columns |-> <<>>, data |-> <<>>]

\* no consumer has loaded the table
NotLoaded == [by |-> "", rows |-> <<>>]

treatment_col_name == "temp_treatment_col"

----------------------------------------------------------------------------
(* Steps of the script and of run_causal_analysis *)

\* an assignment without copy(): the same object
CopyAliased(src, fresh) == src

\* DataFrame.copy(): the reference of a new object
CopyOf(src, fresh) == fresh

\* the enactment year itself left untreated
TreatmentIndicatorStrict(df, policy_year) ==
    [i \in 1..NRows(df) |->
        Cell(IF ~IsNaN(df.data["Year"][i]) /\ df.data["Year"][i][1] > policy_year
             THEN 1 ELSE 0)]

\* (df_temp['Year'] >= policy_year).astype(int)
TreatmentIndicator(df, policy_year) ==
    [i \in 1..NRows(df) |->
        Cell(IF ~IsNaN(df.data["Year"][i]) /\ df.data["Year"][i][1] >= policy_year
             THEN 1 ELSE 0)]

\* line 37
RelevantCols(treatment_col, outcome, common_causes_list) ==
    <<treatment_col, outcome>> \o common_causes_list

\* a check that finds every column present
MissingColsNone(df, relevant_cols) == <<>>

\* line 40
MissingCols(df, relevant_cols) == SelectSeq(relevant_cols, LAMBDA c : ~HasCol(df, c))

\* the dictionary appended to results
ResultDict(policy, outcome, ate, p_ate, p_placebo) ==
    [policy |-> policy, pollutant |-> outcome, ate |-> ate,
     p_value_ate |-> p_ate, p_value_placebo |-> p_placebo]

\* the year added, the placeholder name left in place
RelabelKeepsPlaceholder(d, policy_name, policy_year) ==
    [policy |-> d.policy, policy_year |-> policy_year, pollutant |-> d.pollutant,
     ate |-> d.ate, p_value_ate |-> d.p_value_ate, p_value_placebo |-> d.p_value_placebo]

\* lines 112-114 of the script: the real policy name and its year
Relabel(d, policy_name, policy_year) ==
    [policy |-> policy_name, policy_year |-> policy_year, pollutant |-> d.pollutant,
     ate |-> d.ate, p_value_ate |-> d.p_value_ate, p_value_placebo |-> d.p_value_placebo]

\* the exception leaves run_causal_analysis and ends the script
OnRaiseEscapes == "crashed"

\* where control goes when a statement of the try block raises: line 113
OnRaise == "except"

policy_row == df_policies[policy_i]

outcome == OUTCOMES[outcome_i]

df == heap[df_temp]

Raises(step) ==
    raising = [year |-> policy_row.Year, outcome |-> outcome, step |-> step]

\* script lines 87-107 and runner line 25
NextPolicy ==
    /\ pc = "policy_loop"
    /\ policy_i <= Len(df_policies)
    /\ df_temp' = CopyOf(DfModel, TempObj)
    /\ heap' = [heap EXCEPT ![df_temp'] =
                   SetCol(heap[DfModel], treatment_col_name,
                          TreatmentIndicator(heap[DfModel], policy_row.Year))]
    /\ results' = <<>>
    /\ outcome_i' = 1
    /\ pc' = "outcome_loop"
    /\ UNCHANGED <<df_subset, inputs, np_random, policy_i, locals, all_results,
                   output_file, run, prev_results, loaded>>

\* script line 87, the policy list is exhausted
EndPolicies ==
    /\ pc = "policy_loop"
    /\ policy_i > Len(df_policies)
    /\ pc' = "save"
    /\ UNCHANGED <<heap, df_temp, df_subset, inputs, np_random, policy_i, outcome_i,
                   locals, results, all_results, output_file, run, prev_results, loaded>>

\* runner lines 27-43
BeginOutcome ==
    /\ pc = "outcome_loop"
    /\ outcome_i <= Len(OUTCOMES)
    /\ ate_value' = None
    /\ p_value_ate' = None
    /\ p_value_placebo' = None
    /\ IF MissingCols(df, RelevantCols(treatment_col_name, outcome, COMMON_CAUSES)) # <<>>
       THEN outcome_i' = outcome_i + 1 /\ pc' = "outcome_loop"
       ELSE outcome_i' = outcome_i /\ pc' = "subset"
    /\ UNCHANGED <<heap, df_temp, df_subset, inputs, np_random, policy_i, results,
                   all_results, output_file, run, prev_results, loaded>>

\* runner line 46
Subset ==
    /\ pc = "subset"
    /\ df_subset' = CopyOf(df_temp, SubsetObj)
    /\ heap' = [heap EXCEPT ![df_subset'] =
                   Select(df, RelevantCols(treatment_col_name, outcome, COMMON_CAUSES))]
    /\ pc' = "check_variance"
    /\ UNCHANGED <<df_temp, inputs, np_random, policy_i, outcome_i, locals, results,
                   all_results, output_file, run, prev_results, loaded>>

\* runner lines 50-52
CheckVariance ==
    /\ pc = "check_variance"
    /\ IF NUnique(heap[df_subset].data[outcome]) <= 1
       THEN outcome_i' = outcome_i + 1 /\ pc' = "outcome_loop"
       ELSE outcome_i' = outcome_i /\ pc' = "define_model"
    /\ UNCHANGED <<heap, df_temp, df_subset, inputs, np_random, policy_i, locals,
                   results, all_results, output_file, run, prev_results, loaded>>

\* runner lines 55-63
DefineModel ==
    /\ pc = "define_model"
    /\ pc' = IF Raises("define_model") THEN OnRaise ELSE "estimate"
    /\ UNCHANGED <<heap, df_temp, df_subset, inputs, np_random, policy_i, outcome_i,
                   locals, results, all_results, output_file, run, prev_results, loaded>>

\* runner lines 66-71
Estimate ==
    /\ pc = "estimate"
    /\ IF Raises("estimate") \/ ExogHasNaN(heap[df_subset], treatment_col_name, COMMON_CAUSES)
       THEN pc' = OnRaise /\ ate_value' = ate_value
       ELSE /\ pc' = "significance"
            /\ ate_value' = EstimateValue(heap[df_subset], treatment_col_name,
                                          outcome, COMMON_CAUSES)
    /\ UNCHANGED <<heap, df_temp, df_subset, inputs, np_random, policy_i, outcome_i,
                   p_value_ate, p_value_placebo, results, all_results, output_file,
                   run, prev_results, loaded>>

\* runner lines 74-83
Significance ==
    /\ pc = "significance"
    /\ IF Raises("significance")
       THEN pc' = OnRaise /\ p_value_ate' = p_value_ate
       ELSE /\ pc' = "refute"
            /\ p_value_ate' = ExtractPValue(
                   TestStatSignificance(heap[df_subset], treatment_col_name,
                                        outcome, COMMON_CAUSES))
    /\ UNCHANGED <<heap, df_temp, df_subset, inputs, np_random, policy_i, outcome_i,
                   ate_value, p_value_placebo, results, all_results, output_file,
                   run, prev_results, loaded>>

\* runner lines 86-102
Refute ==
    /\ pc = "refute"
    /\ IF Raises("refute") \/ Raises("refute_trial")
       THEN pc' = OnRaise /\ p_value_placebo' = p_value_placebo
                          /\ np_random' = np_random
       ELSE /\ pc' = "store"
            /\ p_value_placebo' = ExtractPValue(
                   RefutationResult(heap[df_subset], treatment_col_name, outcome,
                                    COMMON_CAUSES, ate_value, np_random))
            /\ np_random' = Advance(np_random, NumSimulations)
    /\ UNCHANGED <<heap, df_temp, df_subset, inputs, policy_i, outcome_i, ate_value,
                   p_value_ate, results, all_results, output_file, run, prev_results, loaded>>

\* runner lines 105-111
Store ==
    /\ pc = "store"
    /\ results' = Append(results, ResultDict(treatment_col_name, outcome, ate_value,
                                             p_value_ate, p_value_placebo))
    /\ outcome_i' = outcome_i + 1
    /\ pc' = "outcome_loop"
    /\ UNCHANGED <<heap, df_temp, df_subset, inputs, np_random, policy_i, locals,
                   all_results, output_file, run, prev_results, loaded>>

\* runner lines 113-121
Except ==
    /\ pc = "except"
    /\ results' = Append(results, ResultDict(treatment_col_name, outcome, None, None, None))
    /\ outcome_i' = outcome_i + 1
    /\ pc' = "outcome_loop"
    /\ UNCHANGED <<heap, df_temp, df_subset, inputs, np_random, policy_i, locals,
                   all_results, output_file, run, prev_results, loaded>>

\* an assignment in place of extend(): the earlier records are dropped
ExtendReplacing(all, new) == new

\* script line 116: all_results.extend(policy_results)
Extend(all, new) == all \o new

\* runner line 123 and script lines 112-116
ReturnResults ==
    /\ pc = "outcome_loop"
    /\ outcome_i > Len(OUTCOMES)
    /\ all_results' = Extend(all_results,
           [k \in 1..Len(results) |-> Relabel(results[k], policy_row.Policy, policy_row.Year)])
    /\ policy_i' = policy_i + 1
    /\ pc' = "policy_loop"
    /\ UNCHANGED <<heap, df_temp, df_subset, inputs, np_random, outcome_i, locals,
                   results, output_file, run, prev_results, loaded>>

\* a cell of the CSV: None and NaN are written as the empty string
EmptyCell == [kind |-> "empty", num |-> 0, den |-> 1, df |-> 0]

\* DataFrame.round(4) and to_csv of one float cell (round half to even)
Round4(x) ==
    IF x.kind \in {"None", "nan"} THEN EmptyCell
    ELSE IF x.kind # "float" THEN x
    ELSE LET q   == x.num * 10000
             fl  == q \div x.den
             rem == q - fl * x.den
             r   == IF 2 * rem < x.den THEN fl
                    ELSE IF 2 * rem > x.den THEN fl + 1
                    ELSE IF fl % 2 = 0 THEN fl ELSE fl + 1
         IN Float(r, 10000)

\* the selection in another order
OutputColumnsReordered ==
    <<"policy", "pollutant", "policy_year", "ate", "p_value_ate", "p_value_placebo">>

\* script line 122: the columns selected from results_df, in this order
OutputColumns == <<"policy", "policy_year", "pollutant", "ate", "p_value_ate", "p_value_placebo">>

FloatColumns == {"ate", "p_value_ate", "p_value_placebo"}

\* one cell of a written row: round(4) touches the float columns only
CsvCell(record, column) ==
    IF column \in FloatColumns THEN Round4(record[column]) ELSE record[column]

\* a table written with its first record only
CsvRowsFirstRecord(records) ==
    <<OutputColumns>> \o
    [k \in 1..(IF records = <<>> THEN 0 ELSE 1) |->
        [c \in 1..Len(OutputColumns) |-> CsvCell(records[k], OutputColumns[c])]]

\* script lines 121-125: the lines of the written table, the header first
CsvRows(records) ==
    <<OutputColumns>> \o
    [k \in 1..Len(records) |->
        [c \in 1..Len(OutputColumns) |-> CsvCell(records[k], OutputColumns[c])]]

\* the data lines of a written table
DataRows(file) == IF file = <<>> THEN <<>> ELSE Tail(file)

\* script lines 121-125; selecting the columns of an empty frame raises
Save ==
    /\ pc = "save"
    /\ IF all_results = <<>>
       THEN pc' = "crashed" /\ output_file' = output_file
       ELSE pc' = "done" /\ output_file' = CsvRows(all_results)
    /\ UNCHANGED <<heap, df_temp, df_subset, inputs, np_random, policy_i, outcome_i,
                   locals, results, all_results, run, prev_results, loaded>>

\* the script is started again on the same files, in a new process
Rerun ==
    /\ pc \in {"done", "crashed"}
    /\ run < MaxRuns
    /\ run' = run + 1
    /\ prev_results' = all_results
    /\ \E s \in 0..(MaxSeed - 1) : np_random' = [seed |-> s, pos |-> 0]
    /\ heap' = [heap EXCEPT ![TempObj] = NoFrame, ![SubsetObj] = NoFrame]
    /\ df_temp' = TempObj
    /\ df_subset' = SubsetObj
    /\ pc' = "policy_loop"
    /\ policy_i' = 1
    /\ outcome_i' = 1
    /\ ate_value' = None
    /\ p_value_ate' = None
    /\ p_value_placebo' = None
    /\ results' = <<>>
    /\ all_results' = <<>>
    /\ loaded' = NotLoaded
    /\ UNCHANGED <<inputs, output_file>>

----------------------------------------------------------------------------
(* Consumers of the impact table: each reads the CSV after a batch *)

\* pd.read_csv of one float cell: the empty string is NaN
ReadCell(x) == IF x.kind = "empty" THEN NaNFloat ELSE x

\* pd.read_csv(OUTPUT_PATH): the records of the table; line is the position
\* of the record in the file
ReadCsv(file) ==
    [k \in 1..Len(DataRows(file)) |->
        [line |-> k, policy |-> DataRows(file)[k][1], policy_year |-> DataRows(file)[k][2],
         pollutant |-> DataRows(file)[k][3], ate |-> ReadCell(DataRows(file)[k][4])]]

\* the rows of a merge, one sequence per left row, in one sequence
RECURSIVE Flatten(_)
Flatten(seqs) == IF seqs = <<>> THEN <<>> ELSE Head(seqs) \o Flatten(Tail(seqs))

\* a row as a consumer keeps it: the policy, the line of the table it came
\* from (0 when no record matched) and the impact value it will use
Kept(policy, line, score) == [policy |-> policy, line |-> line, score |-> score]

\* analogy_service.py line 52: fillna(0.0)
FillNa(score) == IF score.kind = "nan" THEN Float(0, 1) ELSE score

\* analogy_service.py lines 35-52: features left-merged with (policy, ate),
\* then the missing Predicted_Impact_Score filled
KnowledgeBase(features_db, impact_db) ==
    Flatten([f \in 1..Len(features_db) |->
        LET hits == SelectSeq(impact_db, LAMBDA r : r.policy = features_db[f].Policy)
        IN IF hits = <<>> THEN <<Kept(features_db[f].Policy, 0, FillNa(NaNFloat))>>
           ELSE [h \in 1..Len(hits) |->
                    Kept(hits[h].policy, hits[h].line, FillNa(hits[h].ate))]])

\* 8_train_robust_model.py lines 40-53: impacts inner-merged with the
\* features on name and year, classifier failures and rows without ate dropped
TrainingRows(features_db, impact_db) ==
    Flatten([k \in 1..Len(impact_db) |->
        LET hits == SelectSeq(features_db, LAMBDA f :
                        /\ f.Policy = impact_db[k].policy
                        /\ f.Year = impact_db[k].policy_year
                        /\ Classified(f))
        IN IF impact_db[k].ate.kind = "nan" THEN <<>>
           ELSE [h \in 1..Len(hits) |->
                    Kept(impact_db[k].policy, impact_db[k].line, impact_db[k].ate)]])

\* recommender.py lines 17-34: the policies of policy_feature_map
FeatureMapPolicies ==
    {"policy_NAPCC_2008", "policy_NationalSolarMission_2010", "policy_NMEEE_2009",
     "policy_SustainHabitat_2010"}

\* recommender.py lines 14-44: the rows with a mapped policy and an ate
FeaturizedRows(impact_db) ==
    LET clean == SelectSeq(impact_db, LAMBDA r :
                     r.policy \in FeatureMapPolicies /\ r.ate.kind # "nan")
    IN [k \in 1..Len(clean) |-> Kept(clean[k].policy, clean[k].line, clean[k].ate)]

\* the table as the consumer named by holds it; the features file is the one
\* the batch read, of which the model keeps the classified rows
LoadedBy(by) ==
    CASE by = "analogy_service" -> KnowledgeBase(df_policies, ReadCsv(output_file))
      [] by = "train_robust_model" -> TrainingRows(df_policies, ReadCsv(output_file))
      [] by = "recommender" -> FeaturizedRows(ReadCsv(output_file))

\* analogy_service.load_knowledge_base, called at server startup
load_knowledge_base ==
    /\ pc = "done"
    /\ loaded' = [by |-> "analogy_service", rows |-> LoadedBy("analogy_service")]
    /\ UNCHANGED <<heap, df_temp, df_subset, inputs, np_random, pc, policy_i, outcome_i,
                   locals, results, all_results, output_file, run, prev_results>>

\* scripts/8_train_robust_model.py, load and merge
train_robust_model ==
    /\ pc = "done"
    /\ loaded' = [by |-> "train_robust_model", rows |-> LoadedBy("train_robust_model")]
    /\ UNCHANGED <<heap, df_temp, df_subset, inputs, np_random, pc, policy_i, outcome_i,
                   locals, results, all_results, output_file, run, prev_results>>

\* RecommendationEngine.load_and_featurize_data
load_and_featurize_data ==
    /\ pc = "done"
    /\ loaded' = [by |-> "recommender", rows |-> LoadedBy("recommender")]
    /\ UNCHANGED <<heap, df_temp, df_subset, inputs, np_random, pc, policy_i, outcome_i,
                   locals, results, all_results, output_file, run, prev_results>>

\* the stages of the analysis loop, script lines 87-116
LoopStages ==
    {"policy_loop", "outcome_loop", "subset", "check_variance", "define_model",
     "estimate", "significance", "refute", "store", "except"}

\* the run is cancelled while pairs remain (KeyboardInterrupt): runner line
\* 113 catches Exception only and the script has no handler around its loop,
\* so the process ends; its lists and frames are gone, line 125 is not reached
Cancel ==
    /\ pc \in LoopStages
    /\ policy_i <= Len(df_policies)
    /\ pc' = "cancelled"
    /\ heap' = [heap EXCEPT ![TempObj] = NoFrame, ![SubsetObj] = NoFrame]
    /\ df_temp' = TempObj
    /\ df_subset' = SubsetObj
    /\ policy_i' = 1
    /\ outcome_i' = 1
    /\ ate_value' = None
    /\ p_value_ate' = None
    /\ p_value_placebo' = None
    /\ results' = <<>>
    /\ all_results' = <<>>
    /\ UNCHANGED <<inputs, np_random, output_file, run, prev_results, loaded>>

Init ==
    /\ \E panel \in Panels :
          /\ heap = [r \in {DfModel, TempObj, SubsetObj} |->
                        IF r = DfModel THEN panel ELSE NoFrame]
          /\ OUTCOMES \in OutcomeLists(panel)
    /\ df_temp = TempObj
    /\ df_subset = SubsetObj
    /\ \E rows \in PolicyFiles : df_policies = LoadPolicies(rows)
    /\ COMMON_CAUSES \in CommonCauseLists
    /\ raising \in Faults
    /\ \E s \in 0..(MaxSeed - 1) : np_random = [seed |-> s, pos |-> 0]
    /\ pc = "policy_loop"
    /\ policy_i = 1
    /\ outcome_i = 1
    /\ ate_value = None
    /\ p_value_ate = None
    /\ p_value_placebo = None
    /\ results = <<>>
    /\ all_results = <<>>
    /\ output_file = <<>>
    /\ run = 1
    /\ prev_results = <<>>
    /\ loaded = NotLoaded

\* the batch started on the recovery panel or the empty panel, with the
\* outcome columns the script derives from the panel (line 79)
InitInputs ==
    /\ \E panel \in RecoveryPanels :
          /\ heap = [r \in {DfModel, TempObj, SubsetObj} |->
                        IF r = DfModel THEN panel ELSE NoFrame]
          /\ OUTCOMES = OutcomesOf(panel)
    /\ df_temp = TempObj
    /\ df_subset = SubsetObj
    /\ \E rows \in RecoveryPolicyFiles : df_policies = LoadPolicies(rows)
    /\ COMMON_CAUSES \in RecoveryCauseLists
    /\ raising \in {NoFault, TrialFault}
    /\ \E s \in 0..(MaxSeed - 1) : np_random = [seed |-> s, pos |-> 0]
    /\ pc = "policy_loop"
    /\ policy_i = 1
    /\ outcome_i = 1
    /\ ate_value = None
    /\ p_value_ate = None
    /\ p_value_placebo = None
    /\ results = <<>>
    /\ all_results = <<>>
    /\ output_file = <<>>
    /\ run = 1
    /\ prev_results = <<>>
    /\ loaded = NotLoaded

Next ==
    \/ NextPolicy
    \/ EndPolicies
    \/ BeginOutcome
    \/ Subset
    \/ CheckVariance
    \/ DefineModel
    \/ Estimate
    \/ Significance
    \/ Refute
    \/ Store
    \/ Except
    \/ ReturnResults
    \/ Save
    \/ Rerun
    \/ Cancel
    \/ load_knowledge_base
    \/ train_robust_model
    \/ load_and_featurize_data

Spec == Init /\ [][Next]_vars

SpecInputs == InitInputs /\ [][Next]_vars

----------------------------------------------------------------------------
(* Facts about the pairs of a run, read off its inputs *)

LoopFinished == pc \in {"save", "done", "crashed"}

Policies == 1..Len(df_policies)

OutcomeIdx == 1..Len(OUTCOMES)

\* the frame run_causal_analysis is given for policy i
FrameOf(i) ==
    SetCol(heap[DfModel], treatment_col_name,
           TreatmentIndicator(heap[DfModel], df_policies[i].Year))

\* pair (i, j) names a column the panel lacks
PairMissing(i, j) ==
    \E c \in {OUTCOMES[j]} \cup Range(COMMON_CAUSES) : ~HasCol(FrameOf(i), c)

\* pair (i, j) has all its columns and a constant outcome
PairConstant(i, j) ==
    /\ ~PairMissing(i, j)
    /\ NUnique(heap[DfModel].data[OUTCOMES[j]]) <= 1

\* a library call of pair (i, j) raises
PairRaises(i, j) ==
    /\ ~PairMissing(i, j)
    /\ ~PairConstant(i, j)
    /\ \/ /\ raising.year = df_policies[i].Year
          /\ raising.outcome = OUTCOMES[j]
          /\ raising.step \in LibrarySteps \cup {"refute_trial"}
       \/ \E c \in Range(COMMON_CAUSES) : HasNaN(heap[DfModel].data[c])

\* positions in all_results of the records of pair (i, j)
RecordsOf(i, j) ==
    {k \in 1..Len(all_results) :
        /\ all_results[k].policy = df_policies[i].Policy
        /\ all_results[k].pollutant = OUTCOMES[j]}

FullyNull(r) == r.ate = None /\ r.p_value_ate = None /\ r.p_value_placebo = None

\* the records one pair contributes when it is processed with the generator
\* in state rng: runner lines 29-121 for one outcome, then script lines 112-114
PairResult(panel, prow, outc, ccs, fault, rng) ==
    LET dft    == SetCol(panel, treatment_col_name, TreatmentIndicator(panel, prow.Year))
        rel    == RelevantCols(treatment_col_name, outc, ccs)
        sub    == Select(dft, rel)
        fails(st) == fault = [year |-> prow.Year, outcome |-> outc, step |-> st]
        nulls  == ResultDict(treatment_col_name, outc, None, None, None)
        ate    == EstimateValue(sub, treatment_col_name, outc, ccs)
        p_ate  == ExtractPValue(TestStatSignificance(sub, treatment_col_name, outc, ccs))
        p_plc  == ExtractPValue(RefutationResult(sub, treatment_col_name, outc, ccs, ate, rng))
        dicts  == IF MissingCols(dft, rel) # <<>> THEN <<>>
                  ELSE IF NUnique(sub.data[outc]) <= 1 THEN <<>>
                  ELSE IF fails("define_model") THEN <<nulls>>
                  ELSE IF fails("estimate") \/ ExogHasNaN(sub, treatment_col_name, ccs)
                       THEN <<nulls>>
                  ELSE IF fails("significance") \/ fails("refute") \/ fails("refute_trial")
                       THEN <<nulls>>
                  ELSE <<ResultDict(treatment_col_name, outc, ate, p_ate, p_plc)>>
    IN [k \in 1..Len(dicts) |-> Relabel(dicts[k], prow.Policy, prow.Year)]

\* the subset frame of pair (i, j)
SubsetOf(i, j) ==
    Select(FrameOf(i), RelevantCols(treatment_col_name, OUTCOMES[j], COMMON_CAUSES))

\* library step st of pair (i, j) is the failing call
FaultAt(i, j, st) ==
    raising = [year |-> df_policies[i].Year, outcome |-> OUTCOMES[j], step |-> st]

\* pair (i, j) gets through estimate_effect
PairEstimated(i, j) ==
    /\ ~PairMissing(i, j)
    /\ ~PairConstant(i, j)
    /\ ~FaultAt(i, j, "define_model")
    /\ ~FaultAt(i, j, "estimate")
    /\ \A c \in Range(COMMON_CAUSES) : ~HasNaN(heap[DfModel].data[c])

\* the ate estimate_effect returns for pair (i, j)
AteOf(i, j) == EstimateValue(SubsetOf(i, j), treatment_col_name, OUTCOMES[j], COMMON_CAUSES)

\* the p-value extracted from the significance test of pair (i, j)
PAteOf(i, j) ==
    ExtractPValue(TestStatSignificance(SubsetOf(i, j), treatment_col_name,
                                       OUTCOMES[j], COMMON_CAUSES))

\* the inputs are structurally valid
StructurallyValid ==
    /\ NRows(heap[DfModel]) > 0
    /\ df_policies # <<>>
    /\ COMMON_CAUSES # <<>>

\* the per-pair state of the pair being processed
PairStages ==
    {"outcome_loop", "subset", "check_variance", "define_model", "estimate",
     "significance", "refute", "store", "except"}

InPair == pc \in PairStages /\ outcome_i <= Len(OUTCOMES)

PairState ==
    CASE pc \in {"outcome_loop", "subset"}                    -> "PENDING"
      [] pc \in {"check_variance", "define_model", "estimate"} -> "ISOLATED"
      [] pc \in {"significance", "refute"}                     -> "ESTIMATED"
      [] pc = "store"                                          -> "REFUTED"
      [] pc = "except"                                         -> "FAILED"
      [] OTHER                                                 -> "NONE"

PairMoves ==
    {<<"PENDING", "PENDING">>, <<"PENDING", "ISOLATED">>, <<"ISOLATED", "ISOLATED">>,
     <<"ISOLATED", "ESTIMATED">>, <<"ESTIMATED", "ESTIMATED">>, <<"ESTIMATED", "REFUTED">>,
     <<"PENDING", "FAILED">>, <<"ISOLATED", "FAILED">>, <<"ESTIMATED", "FAILED">>}

\* outcome j is passed over for every policy: a column of the pair is not
\* in the frame, or the outcome is constant in it (runner lines 40-52)
OutcomeSkipped(j) ==
    \/ \E c \in {OUTCOMES[j]} \cup Range(COMMON_CAUSES) : ~HasCol(heap[DfModel], c)
    \/ NUnique(heap[DfModel].data[OUTCOMES[j]]) <= 1

\* the (policy, outcome) keys of the table the batch builds from policy file q
TableKeys(q) ==
    {<<LoadPolicies(q)[i].Policy, OUTCOMES[j]>> :
        i \in 1..Len(LoadPolicies(q)), j \in {m \in OutcomeIdx : ~OutcomeSkipped(m)}}

\* the (policy, outcome) keys of the records made by this run
RecordKeys ==
    {<<all_results[k].policy, all_results[k].pollutant>> : k \in 1..Len(all_results)}

\* values a caller may put in the classification fields
PolicyTypeValues == {"Regulation", "Subsidy", "ParseError", Missing}

ActionTypeValues == {"Mandate", Missing}

\* the policy files with the names and enactment years of q, in its order,
\* and any classification
Reclassified(q) ==
    {[i \in 1..Len(q) |->
         [Policy |-> q[i].Policy, Year |-> q[i].Year,
          policy_type |-> cl[i][1], action_type |-> cl[i][2]]] :
       cl \in [1..Len(q) -> PolicyTypeValues \X ActionTypeValues]}

\* the number of rows of a column that hold the value v
CountOf(col, v) == Cardinality({r \in 1..Len(col) : col[r] = Cell(v)})

\* a column pair (i, j) requires: its treatment, its outcome, its confounders
RequiredCols(j) == RelevantCols(treatment_col_name, OUTCOMES[j], COMMON_CAUSES)

\* a required column of pair (i, j) holds a missing value in some row
PairIncomplete(i, j) ==
    /\ ~PairMissing(i, j)
    /\ \E c \in Range(RequiredCols(j)) : HasNaN(FrameOf(i).data[c])

\* the design of pair (i, j) is singular: the treatment is constant, or the
\* columns of the design (constant, treatment, confounders) are dependent
DesignSingular(i, j) ==
    /\ ~PairMissing(i, j)
    /\ ~PairConstant(i, j)
    /\ ~PairIncomplete(i, j)
    /\ \/ NUnique(FrameOf(i).data[treatment_col_name]) <= 1
       \/ Det(Gram(Design(SubsetOf(i, j), treatment_col_name, COMMON_CAUSES))) = 0

----------------------------------------------------------------------------
(* Claims *)

\* C1: after the batch the impact table holds exactly one record for every
\* (policy, outcome) pair, so that it has |policies| x |outcomes| rows, also
\* when pairs fail.
C1_OneRecordPerPair ==
    LoopFinished =>
        /\ Len(all_results) = Len(df_policies) * Len(OUTCOMES)
        /\ \A i \in Policies, j \in OutcomeIdx : Cardinality(RecordsOf(i, j)) = 1

\* C2: the table handed to the causal model holds exactly the treatment
\* column, the requested outcome and the declared confounders, row-aligned
\* to the panel, and no other outcome column or pre-existing treatment column.
C2_ColumnIsolation ==
    pc \in LibrarySteps =>
        LET sub == heap[df_subset]
        IN /\ Range(sub.columns) = {treatment_col_name, outcome} \cup Range(COMMON_CAUSES)
           /\ Len(sub.columns) = 2 + Len(COMMON_CAUSES)
           /\ DOMAIN sub.data = Range(sub.columns)
           /\ \A c \in Range(sub.columns) : sub.data[c] = FrameOf(policy_i).data[c]
           /\ \A c \in Range(OutcomesOf(heap[DfModel])) \ {outcome} : ~HasCol(sub, c)
           /\ ~HasCol(sub, "policy_NAPCC_2008")

\* a model is being built from the subset of a panel with several outcomes
C2_Witness ==
    /\ pc = "define_model"
    /\ Len(OutcomesOf(heap[DfModel])) > 1
    /\ HasCol(heap[DfModel], "policy_NAPCC_2008")
    /\ HasCol(heap[df_subset], outcome)

\* C3: an exception raised by a library step of one pair does not reach the
\* caller of the batch; the pair gets one fully-null record and every other
\* pair of the run is still processed.
C3_ExceptionIsolated ==
    LoopFinished =>
        \A i \in Policies, j \in OutcomeIdx :
            /\ PairRaises(i, j) =>
                 /\ pc # "crashed"
                 /\ Cardinality(RecordsOf(i, j)) = 1
                 /\ \A k \in RecordsOf(i, j) : FullyNull(all_results[k])
            /\ (\E i2 \in Policies, j2 \in OutcomeIdx : PairRaises(i2, j2))
                 /\ ~PairMissing(i, j) /\ ~PairConstant(i, j)
                 => Cardinality(RecordsOf(i, j)) = 1

\* a run in which a library call of one pair raised and a later pair was
\* estimated
C3_Witness ==
    /\ pc = "done"
    /\ \E i \in Policies, j \in OutcomeIdx :
          /\ PairRaises(i, j)
          /\ \E k \in 1..Len(all_results) :
                /\ \A m \in RecordsOf(i, j) : m < k
                /\ all_results[k].ate # None

\* C4: a missing outcome or confounder column fails only the affected pair:
\* the batch completes, that pair gets one fully-null record and every other
\* pair its normal record.
C4_MissingColumnRecorded ==
    LoopFinished =>
        /\ (\E i \in Policies, j \in OutcomeIdx : PairMissing(i, j)) => pc # "crashed"
        /\ \A i \in Policies, j \in OutcomeIdx :
              PairMissing(i, j) =>
                 /\ Cardinality(RecordsOf(i, j)) = 1
                 /\ \A k \in RecordsOf(i, j) : FullyNull(all_results[k])

\* C5: a pair whose outcome column has at most one distinct value is not
\* estimated and a record with ate = null is recorded for it.
C5_ConstantOutcomeRecorded ==
    LoopFinished =>
        \A i \in Policies, j \in OutcomeIdx :
            PairConstant(i, j) =>
                /\ Cardinality(RecordsOf(i, j)) = 1
                /\ \A k \in RecordsOf(i, j) : all_results[k].ate = None

\* C6: the treatment indicator of a row is 1 iff the row's period is at or
\* after the policy's enactment period, else 0; over rows ordered by period
\* it is monotone.
C6_TreatmentIndicator ==
    pc \notin {"policy_loop", "save", "done", "crashed", "cancelled"} =>
        LET t    == df.data[treatment_col_name]
            year == df.data["Year"]
            rows == 1..NRows(df)
        IN /\ Len(t) = Len(year)
           /\ \A r \in rows : /\ t[r] \in {Cell(0), Cell(1)}
                              /\ t[r] = Cell(1) <=> year[r][1] >= policy_row.Year
           /\ \A r1, r2 \in rows :
                 year[r1][1] <= year[r2][1] /\ t[r1] = Cell(1) => t[r2] = Cell(1)

\* a policy enacted inside the panel's span: untreated rows, and a row of
\* the enactment period itself, which is treated
C6_Witness ==
    /\ pc = "subset"
    /\ \E r \in 1..NRows(df) : df.data[treatment_col_name][r] = Cell(0)
    /\ \E r \in 1..NRows(df) : /\ df.data["Year"][r] = Cell(policy_row.Year)
                               /\ df.data[treatment_col_name][r] = Cell(1)

\* C7: the batch never changes the shared panel, and no treatment column is
\* ever present in it.
C7_PanelUnchanged ==
    /\ [](~HasCol(heap[DfModel], treatment_col_name))
    /\ [][heap'[DfModel] = heap[DfModel]]_vars

\* a finished run over two policies that produced records
C7_Witness ==
    /\ pc = "done"
    /\ Len(df_policies) >= 2
    /\ all_results # <<>>
    /\ HasCol(heap[df_temp], treatment_col_name)

\* C8: the record of a pair does not depend on the other pairs of the batch
\* nor on the processing order: every record of the table is the record the
\* pair gets when it is processed first, from the generator state the run
\* started with.
C8_PairIndependent ==
    pc = "done" =>
        \A k \in 1..Len(all_results) :
            \E i \in Policies, j \in OutcomeIdx :
                <<all_results[k]>> =
                    PairResult(heap[DfModel], df_policies[i], OUTCOMES[j], COMMON_CAUSES,
                               raising, [seed |-> np_random.seed, pos |-> 0])

\* C9: two runs on the same panel, policy list and confounder declaration
\* produce the same impact table, p_value_placebo included.
C9_RunsAgree ==
    run >= 2 /\ pc = "done" => output_file = CsvRows(prev_results)

\* C10: estimating the same context twice yields the same ate and the same
\* p_value_ate: the records of a second run carry the ate and p_value_ate of
\* the first run.
C10_EstimateDeterministic ==
    run >= 2 =>
        \A k \in 1..Len(all_results) :
            /\ k <= Len(prev_results)
            /\ all_results[k].policy = prev_results[k].policy
            /\ all_results[k].pollutant = prev_results[k].pollutant
            /\ all_results[k].ate = prev_results[k].ate
            /\ all_results[k].p_value_ate = prev_results[k].p_value_ate

\* a second run that estimated a pair again, with other placebo draws
C10_Witness ==
    /\ run >= 2
    /\ pc = "done"
    /\ \E k \in 1..Len(all_results) :
          /\ all_results[k].ate.kind = "float"
          /\ all_results[k].p_value_ate.kind = "ttest_p"
          /\ all_results[k].p_value_placebo # prev_results[k].p_value_placebo

\* C11: on structurally valid input (non-empty panel, policy list and
\* confounder list) the run ends normally and writes a complete table, one
\* row per declared pair, even when every pair fails.
C11_ValidInputCompletes ==
    StructurallyValid =>
        /\ pc # "crashed"
        /\ pc = "done" =>
              Len(DataRows(output_file)) = Len(df_policies) * Len(OUTCOMES)

\* C13: when the refutation of a pair fails after the ATE was estimated, the
\* pair's record has p_value_placebo = null and keeps the estimated ate and
\* p_value_ate.
C13_RefutationFailureKeepsAte ==
    LoopFinished =>
        \A i \in Policies, j \in OutcomeIdx :
            PairEstimated(i, j) /\ ~FaultAt(i, j, "significance") /\ FaultAt(i, j, "refute")
            => \E k \in RecordsOf(i, j) :
                  /\ all_results[k].p_value_placebo = None
                  /\ all_results[k].ate = AteOf(i, j)
                  /\ all_results[k].ate # None
                  /\ all_results[k].p_value_ate = PAteOf(i, j)

\* C14: when the significance test gives no usable p-value or fails while
\* the ATE was computed, the pair's record has p_value_ate = null and still
\* reports the computed ate.
C14_SignificanceFailureKeepsAte ==
    LoopFinished =>
        \A i \in Policies, j \in OutcomeIdx :
            PairEstimated(i, j) /\ (FaultAt(i, j, "significance") \/ PAteOf(i, j) = None)
            => \E k \in RecordsOf(i, j) :
                  /\ all_results[k].p_value_ate = None
                  /\ all_results[k].ate = AteOf(i, j)
                  /\ all_results[k].ate # None

\* C20: every pair moves only PENDING -> ISOLATED -> ESTIMATED -> REFUTED ->
\* RECORDED, or to FAILED from one of the first three and from FAILED to
\* RECORDED with null values; a pair ends only by being recorded, and with
\* non-null values only from REFUTED.
C20_PairStateMachine ==
    [][ InPair /\ pc' \in PairStages =>
          IF outcome_i' = outcome_i + 1
          THEN /\ PairState \in {"REFUTED", "FAILED"}
               /\ Len(results') = Len(results) + 1
               /\ results'[Len(results')].pollutant = outcome
               /\ PairState = "FAILED" => FullyNull(results'[Len(results')])
               /\ ~FullyNull(results'[Len(results')]) => PairState = "REFUTED"
          ELSE <<PairState, PairState'>> \in PairMoves ]_vars

\* C15: every record of the written impact table, from a successful or a
\* failed pair, has exactly the fields policy, policy_year, pollutant, ate,
\* p_value_ate, p_value_placebo, in that order.
C15_TableSchema ==
    pc = "done" =>
        /\ output_file[1] =
               <<"policy", "policy_year", "pollutant", "ate", "p_value_ate", "p_value_placebo">>
        /\ Len(DataRows(output_file)) = Len(all_results)
        /\ \A k \in 1..Len(all_results) :
              LET rec == all_results[k]
                  row == DataRows(output_file)[k]
              IN /\ DOMAIN rec = {"policy", "policy_year", "pollutant", "ate",
                                  "p_value_ate", "p_value_placebo"}
                 /\ row = <<rec.policy, rec.policy_year, rec.pollutant, Round4(rec.ate),
                            Round4(rec.p_value_ate), Round4(rec.p_value_placebo)>>

\* a written table with the row of a failed pair and the row of a successful one
C15_Witness ==
    /\ pc = "done"
    /\ \E k \in 1..Len(all_results) : FullyNull(all_results[k])
    /\ \E k \in 1..Len(all_results) :
          /\ all_results[k].ate.kind = "float"
          /\ DataRows(output_file)[k][4].kind = "float"

\* C18: when the run is cancelled while pairs remain, the table holds no
\* record of a pair whose processing was incomplete, and every record that
\* was recorded before the cancellation is still available afterwards.
C18_CancelKeepsRecords ==
    [][ pc' = "cancelled" =>
          LET recorded == all_results \o
                  [k \in 1..Len(results) |->
                      Relabel(results[k], policy_row.Policy, policy_row.Year)]
              written  == DataRows(output_file')
          IN /\ \A k \in 1..Len(recorded) :
                   \/ \E m \in 1..Len(all_results') : all_results'[m] = recorded[k]
                   \/ \E m \in 1..Len(written) :
                         written[m] = DataRows(CsvRows(recorded))[k]
             /\ pc \in PairStages \ {"outcome_loop"} =>
                   /\ ~\E m \in 1..Len(all_results') :
                         /\ all_results'[m].policy = policy_row.Policy
                         /\ all_results'[m].pollutant = outcome
                   /\ output_file' = output_file ]_vars

\* C17 (as stated): the classification fields of the policy list are
\* ignored: a policy list with the same names and enactment periods and any
\* other classification yields a table with the same (policy, outcome)
\* records as this run's.
C17_ClassificationIgnored ==
    LoopFinished =>
        \A q1 \in PolicyFiles :
            df_policies = LoadPolicies(q1) =>
                \A q2 \in Reclassified(q1) : RecordKeys = TableKeys(q2)

\* C17 (amended): a policy list with the same names and enactment periods
\* whose rows are classified (both fields filled, policy_type not a
\* classifier failure) exactly where this run's rows are yields a table with
\* the same (policy, outcome) records; the values of the classification
\* fields are otherwise ignored.
C17_ClassifiedRowsOnly ==
    LoopFinished =>
        \A q1 \in PolicyFiles :
            df_policies = LoadPolicies(q1) =>
                \A q2 \in Reclassified(q1) :
                    (\A i \in 1..Len(q1) : Classified(q1[i]) <=> Classified(q2[i]))
                    => RecordKeys = TableKeys(q2)

\* a written table of a run whose policy file had a classified row and a
\* row the classifier failed on
C17_Witness ==
    /\ pc = "done"
    /\ \E q1 \in PolicyFiles :
          /\ df_policies = LoadPolicies(q1)
          /\ Len(q1) > Len(df_policies)
          /\ \E k \in 1..Len(all_results) : all_results[k].policy = q1[Len(q1)].Policy

\* C12: when the panel has no rows, the policy list is empty or no
\* confounder is declared, the run aborts before any pair is processed and
\* writes no output file.
C12_StructuralInputAborts ==
    ~StructurallyValid =>
        /\ output_file = <<>>
        /\ pc \notin (PairStages \ {"outcome_loop"}) \cup {"done"}
        /\ results = <<>>

\* a recorded p-value: null, or a number of the closed interval [0,1] (the
\* tail probability of a t statistic, or a fraction between 0 and 1)
InUnitOrNull(p) ==
    \/ p = None
    \/ p.kind = "ttest_p"
    \/ p.kind = "float" /\ 0 <= p.num /\ p.num <= p.den

NoiselessRecovery(i, j) ==
    /\ Len(COMMON_CAUSES) = 1
    /\ ~PairMissing(i, j)
    /\ ~PairRaises(i, j)
    /\ LET t == FrameOf(i).data[treatment_col_name]
           y == FrameOf(i).data[OUTCOMES[j]]
           c == FrameOf(i).data[COMMON_CAUSES[1]]
       IN /\ NUnique(t) = 2
          /\ ~HasNaN(y)
          /\ ~HasNaN(c)
          /\ \A r \in 1..Len(y) : 2 * y[r][1] = 4 * t[r][1] + c[r][1]

\* C19: the recorded ate is the treatment coefficient of the linear model of
\* the outcome on the treatment and the declared confounders: where the
\* outcome is 2 x treatment + 0.5 x confounder without noise, it is 2.
C19_RecoversCoefficient ==
    LoopFinished =>
        \A i \in Policies, j \in OutcomeIdx :
            NoiselessRecovery(i, j) =>
                /\ RecordsOf(i, j) # {}
                /\ \A k \in RecordsOf(i, j) :
                      /\ all_results[k].ate = Float(2, 1)
                      /\ all_results[k].ate = AteOf(i, j)

\* a written table with the record of a noiseless pair
C19_Witness ==
    /\ pc = "done"
    /\ \E i \in Policies, j \in OutcomeIdx :
          /\ NoiselessRecovery(i, j)
          /\ \E k \in RecordsOf(i, j) : all_results[k].ate = Float(2, 1)

\* s is an initial part of t
IsPrefix(s, t) == Len(s) <= Len(t) /\ \A k \in 1..Len(s) : t[k] = s[k]

\* C21: the recorded impact records are append-only during a run: no step
\* removes a record of the batch's result table or changes one of its
\* fields, and a later pair or policy never alters an earlier record.
C21_AppendOnly ==
    [][ run' = run /\ pc' # "cancelled" =>
          /\ IsPrefix(all_results, all_results')
          /\ pc \in PairStages /\ pc' \in PairStages => IsPrefix(results, results')
          /\ pc' = "policy_loop" /\ pc = "outcome_loop" =>
                /\ Len(all_results') = Len(all_results) + Len(results)
                /\ \A k \in 1..Len(results) :
                      LET r == all_results'[Len(all_results) + k]
                      IN /\ r.pollutant = results[k].pollutant
                         /\ r.ate = results[k].ate
                         /\ r.p_value_ate = results[k].p_value_ate
                         /\ r.p_value_placebo = results[k].p_value_placebo ]_vars

\* the second policy's pairs are being processed and both the table and the
\* list of the current policy hold a record
C21_Witness ==
    /\ policy_i = 2
    /\ pc \in PairStages
    /\ Len(all_results) >= 1
    /\ Len(results) >= 1

\* C22: every record of the final table, failure records included, carries
\* the name and the enactment year of the policy whose treatment column was
\* used for it; the temporary column name is never a policy name, and the
\* records of a policy carry no other policy's name or year.
C22_PolicyLabels ==
    LoopFinished =>
        /\ \A k \in 1..Len(all_results) :
              /\ all_results[k].policy # treatment_col_name
              /\ \E i \in Policies, j \in OutcomeIdx :
                    /\ all_results[k].policy = df_policies[i].Policy
                    /\ all_results[k].policy_year = df_policies[i].Year
                    /\ all_results[k].pollutant = OUTCOMES[j]
                    /\ \/ FullyNull(all_results[k])
                       \/ all_results[k].ate = AteOf(i, j)
        /\ \A k1, k2 \in 1..Len(all_results) :
              all_results[k1].policy = all_results[k2].policy
                  => all_results[k1].policy_year = all_results[k2].policy_year

\* a written table with estimated records of two policies, whose estimates
\* differ, and with a failure record
C22_Witness ==
    /\ pc = "done"
    /\ \E k1, k2 \in 1..Len(all_results) :
          /\ all_results[k1].policy # all_results[k2].policy
          /\ all_results[k1].ate # None
          /\ all_results[k2].ate # None
          /\ all_results[k1].ate # all_results[k2].ate
    /\ \E k \in 1..Len(all_results) : FullyNull(all_results[k])

\* C23: a permutation trial that fails numerically is left out of the
\* placebo p-value and aborts neither the refutation nor the pair: the pair
\* keeps its ate and p_value_ate, and p_value_placebo is null only when all
\* trials fail.
C23_FailedTrialExcluded ==
    LoopFinished =>
        \A i \in Policies, j \in OutcomeIdx :
            PairEstimated(i, j) /\ FaultAt(i, j, "refute_trial")
            => \E k \in RecordsOf(i, j) :
                  /\ all_results[k].ate = AteOf(i, j)
                  /\ all_results[k].ate # None
                  /\ all_results[k].p_value_ate = PAteOf(i, j)
                  /\ all_results[k].p_value_placebo # None

\* C24: the refutation of a pair runs 50 trials, and in each the placebo
\* treatment column is a permutation of the real one (as many treated and
\* as many untreated rows) while the outcome and the confounder columns are
\* those of the real estimation.
C24_PlaceboIsPermutation ==
    [][ pc = "refute" /\ pc' = "store" =>
          /\ np_random'.pos = np_random.pos + 50
          /\ \A trial \in 1..50 :
                LET real == heap[df_subset]
                    plc  == PlaceboFrame(real, treatment_col_name,
                                         Advance(np_random, trial - 1))
                IN /\ plc.columns = real.columns
                   /\ Len(plc.data[treatment_col_name]) = Len(real.data[treatment_col_name])
                   /\ \A v \in {0, 1} :
                         CountOf(plc.data[treatment_col_name], v)
                             = CountOf(real.data[treatment_col_name], v)
                   /\ \A c \in Range(real.columns) \ {treatment_col_name} :
                         plc.data[c] = real.data[c] ]_vars

\* a refutation has run on a pair with treated and untreated rows, and a
\* trial of it moved a treated row
C24_Witness ==
    /\ pc = "store"
    /\ CountOf(heap[df_subset].data[treatment_col_name], 1) >= 1
    /\ CountOf(heap[df_subset].data[treatment_col_name], 0) >= 1
    /\ p_value_placebo # None

\* C25: when the design of a pair is singular or collinear (the treatment
\* is constant, or determined by the confounders) the failure is caught and
\* the pair's record has ate = null.
C25_SingularDesignNullAte ==
    LoopFinished =>
        \A i \in Policies, j \in OutcomeIdx :
            DesignSingular(i, j) /\ ~PairRaises(i, j) =>
                /\ Cardinality(RecordsOf(i, j)) = 1
                /\ \A k \in RecordsOf(i, j) : all_results[k].ate = None

\* C26: a pair with a missing value left in a required column gets one
\* fully-null record and is not estimated, and the pairs whose required
\* columns are fully populated are processed normally.
C26_IncompletePairNullRecord ==
    LoopFinished =>
        \A i \in Policies, j \in OutcomeIdx :
            /\ PairIncomplete(i, j) =>
                  /\ Cardinality(RecordsOf(i, j)) = 1
                  /\ \A k \in RecordsOf(i, j) : FullyNull(all_results[k])
            /\ ~PairMissing(i, j) /\ ~PairIncomplete(i, j) /\ ~PairConstant(i, j)
                   /\ ~PairRaises(i, j)
               => \E k \in RecordsOf(i, j) : all_results[k].ate = AteOf(i, j)

\* C27: a null ate of the impact table is never read as a zero effect: a
\* consumer that has loaded the table has dropped the records whose ate is
\* null or kept the value null; none holds 0 for such a record.
C27_NullIsNotZero ==
    \A m \in 1..Len(loaded.rows) :
        LET row == loaded.rows[m]
        IN row.line > 0 /\ ReadCsv(output_file)[row.line].ate.kind = "nan"
           => row.score.kind = "nan"

\* C28: the outcome set of a batch run is exactly the set of panel columns
\* whose name starts with an outcome prefix; it is disjoint from the
\* declared confounders, the period column and the treatment column, so the
\* required-column list of a pair names no column twice.
C28_OutcomesByPrefix ==
    /\ Range(OUTCOMES) =
           {c \in Range(heap[DfModel].columns) : \E pre \in OutcomePrefixes : StartsWith(c, pre)}
    /\ Distinct(OUTCOMES)
    /\ Range(OUTCOMES) \cap (Range(COMMON_CAUSES) \cup {"Year", treatment_col_name}) = {}
    /\ \A j \in OutcomeIdx : Distinct(RequiredCols(j))

\* a pair with a declared confounder is about to be subset
C28_Witness ==
    /\ pc = "subset"
    /\ Len(COMMON_CAUSES) >= 1
    /\ HasCol(df, "Year")
    /\ HasCol(df, treatment_col_name)

\* C29: for every outcome the missing-column check and the
\* constant-outcome check are done before a causal model is built: no model
\* is built, estimated or refuted for a pair with a missing column or a
\* constant outcome, and the panel is never subset by a column it lacks.
C29_ChecksBeforeModel ==
    /\ pc \in {"subset", "check_variance", "define_model", "estimate", "significance",
               "refute", "store"}
          => \A c \in Range(RelevantCols(treatment_col_name, outcome, COMMON_CAUSES)) :
                 HasCol(df, c)
    /\ pc \in {"check_variance", "define_model", "estimate", "significance", "refute",
               "store"}
          => heap[df_subset].columns =
                 RelevantCols(treatment_col_name, outcome, COMMON_CAUSES)
    /\ pc \in {"define_model", "estimate", "significance", "refute", "store"}
          => NUnique(heap[df_subset].data[outcome]) > 1

\* a model is being built for an outcome after an earlier outcome of the
\* same policy was passed over by a check
C29_Witness ==
    /\ pc = "define_model"
    /\ outcome_i >= 2
    /\ results = <<>>

\* C30: the output file is written at most once per run and only after the
\* loop over all policies has finished, with the records of the whole run;
\* a run that ends with an error writes no file.
C30_WrittenOnceAfterLoop ==
    [][ /\ output_file' # output_file =>
              /\ pc = "save"
              /\ pc' = "done"
              /\ policy_i > Len(df_policies)
              /\ all_results' = all_results
              /\ Len(DataRows(output_file')) = Len(all_results)
              /\ \A k \in 1..Len(all_results) :
                    /\ DataRows(output_file')[k][1] = all_results[k].policy
                    /\ DataRows(output_file')[k][3] = all_results[k].pollutant
        /\ pc' \in {"crashed", "cancelled"} => output_file' = output_file
        /\ pc = "done" /\ run' = run => output_file' = output_file ]_vars

\* the first run has written a table of several records
C30_Witness ==
    /\ pc = "done"
    /\ run = 1
    /\ Len(all_results) >= 2
    /\ Len(DataRows(output_file)) = Len(all_results)

====
